---- MODULE Spec2Model ----
(***************************************************************************)
(* Ledger and payment core of the banking microservices.                   *)
(*                                                                         *)
(* transaction-service (src/unnamed/part_002): createTransaction and       *)
(* transfer, each a handler that runs its statements inside one database   *)
(* transaction on a pooled client, reads the balance for the funds check   *)
(* through the pool (another connection, READ COMMITTED), and publishes    *)
(* its event after COMMIT.                                                 *)
(* payment-service (src/unnamed/part_001, lines 239-684): createPayment,   *)
(* cancelPayment and the cron sweep of scheduled payments.                 *)
(*                                                                         *)
(* Amounts are DECIMAL(15,2) values; the model varies whole units.  A      *)
(* handler is split into steps at the awaits that touch shared state;      *)
(* statements of an open database transaction are buffered in the          *)
(* handler's record and become visible at COMMIT, as PostgreSQL does       *)
(* under READ COMMITTED.                                                   *)
(***************************************************************************)
EXTENDS Integers, FiniteSets, Sequences, TLC

\* ---------------------------------------------------------------- bounds
MaxConcurrent == 2
MaxRequests == 3
MaxAmount == 2
NumAccounts == 2
NumUsers == 2
MaxTime == 1
MaxQueue == 2
MaxPaymentRequests == 2
MaxRequestsAll == 2
MaxFairRequests == 1
MaxLifecycleRequests == 4
MaxRecent == 8
MaxEventRequests == 2
MaxConsuming == 2
MaxInbox == 3
MaxQueryRequests == 4
MaxAccountRequests == 3

Accounts == 1..NumAccounts
Users == 1..NumUsers
\* the ids requests get: as many as the largest budget of a specification admits
Budgets == {MaxRequests, MaxPaymentRequests, MaxRequestsAll, MaxFairRequests,
            MaxLifecycleRequests, MaxEventRequests, MaxQueryRequests, MaxAccountRequests}
ReqIds == 1..(CHOOSE b \in Budgets : \A c \in Budgets : c <= b)

\* absent values
NoRow == -1000
NoRef == 0
NoAccount == 0
NoTime == -1
NoPayment == [status |-> "none"]
NoAccountRow == [status |-> "none"]
NoCheck == [riskScore |-> -1, riskFactors |-> {}, requiresReview |-> FALSE]
NoBalance == -1
\* the body of an answer that carries no rows and no balance
NoBody == [user |-> 0, rows |-> {}, balance |-> NoBalance, currency |-> "none"]

VARIABLES
  account_balances,   \* account_balances table: account id -> balance, NoRow when there is no row
  transactions,       \* transactions table: the committed ledger entries
  account_ownership,  \* account_ownership table: set of <<account id, user id>>
  txChannel,          \* transaction-service's `channel` variable
  txEvents,           \* messages published to exchange banking.events by transaction-service
  req,                \* the handlers in flight: a set of handler records
  nextReq,            \* number of requests received so far
  budget,             \* number of requests the run admits
  answer,             \* the last answer given: the request, its status, the payment it is about
  payments,           \* payments table: payment id -> row, NoPayment when there is no row
  payChannel,         \* payment-service's `channel` variable
  payEvents,          \* messages published to exchange banking.events by payment-service
  processing,         \* messages on queue payment.processing
  now,                \* the clock
  payIdle,            \* payment-service: the idle clients of `pool`, the last released last
  accounts,           \* account-service: accounts table, account id -> row, NoAccountRow when none
  accountCache,       \* account-service: Redis keys account:<id>, NoAccountRow when not set
  notifyChannel,      \* notification-service's `channel` variable
  notifyQueue,        \* messages ready on queue notifications
  consuming,          \* notification-service: the handleBankingEvent calls in flight
  inbox               \* notification-service: Redis lists notifications:<userId>

ledgerVars == <<account_balances, transactions, txChannel, txEvents>>
paymentVars == <<payments, payChannel, payEvents, processing, now, payIdle>>
accountVars == <<accounts, accountCache>>
consumerVars == <<notifyChannel, consuming, inbox>>
notifyVars == <<notifyChannel, notifyQueue, consuming, inbox>>
outerVars == <<accountVars, notifyVars>>
vars == <<account_balances, transactions, account_ownership, txChannel, txEvents, req, nextReq, budget, answer,
          payments, payChannel, payEvents, processing, now, payIdle, accounts, accountCache,
          notifyChannel, notifyQueue, consuming, inbox>>

\* a database client with no transaction open
CleanClient == [tx |-> FALSE, began |-> NoTime, cancelled |-> {}]

IdleReq == [op |-> "idle", pc |-> "idle", n |-> 0, user |-> 0, account |-> NoAccount,
            to |-> NoAccount, amount |-> 0, type |-> "none", ref |-> NoRef,
            seen |-> NoRow, inserted |-> {}, written |-> {},
            scheduledAt |-> NoTime, began |-> NoTime, row |-> NoPayment, paymentId |-> 0,
            recent |-> 0, fraudCheck |-> NoCheck, client |-> CleanClient]

\* ------------------------------------------------------ banking.events
\* queue notifications exists and is bound to banking.events with key '#' once
\* notification-service has connected; it is durable
Bound == notifyChannel # "undefined"

\* a message of the exchange as the consumer reads it: event.type, event.id, event.data.userId
Message(type, n, user) == [type |-> type, n |-> n, user |-> user, redelivered |-> FALSE]

\* the exchange routes a published message to the bound queue and drops it otherwise
Route(queue, msg) == IF Bound THEN Append(queue, msg) ELSE queue

\* ------------------------------------------------- transaction-service
\* transactionSchema / transferSchema: the fields the model varies
ValidAmount(amount) == amount > 0
ValidType(type) == type \in {"debit", "credit"}

\* the check without its user_id condition
MutOwnershipCheck(ownership, accountId, userId) == \E o \in ownership : o[1] = accountId

\* SELECT user_id FROM account_ownership WHERE account_id = $1 AND user_id = $2
OwnershipCheck(ownership, accountId, userId) == <<accountId, userId>> \in ownership

\* the comparison the wrong way round
MutInsufficientFunds(currentBalance, amount, type) == type = "debit" /\ currentBalance > amount

\* currentBalance.lt(transactionAmount) for a debit
InsufficientFunds(currentBalance, amount, type) == type = "debit" /\ currentBalance < amount

\* verifyAccountBalance: the answer for a balance read through the pool
VerifyAccountBalance(balances, accountId, amount, type) ==
  IF balances[accountId] = NoRow THEN "Account not found"
  ELSE IF InsufficientFunds(balances[accountId], amount, type) THEN "Insufficient funds"
  ELSE "valid"

\* the update without its sign
MutBalanceUpdate(type, amount) == amount

\* const balanceUpdate = type === 'credit' ? amount : -amount
BalanceUpdate(type, amount) == IF type = "credit" THEN amount ELSE 0 - amount

\* an upsert whose conflict branch stores the update instead of adding it
MutUpsert(current, ins, upd) == IF current = NoRow THEN ins ELSE upd

\* INSERT INTO account_balances VALUES (id, ins) ON CONFLICT DO UPDATE SET balance = balance + upd
Upsert(current, ins, upd) == IF current = NoRow THEN ins ELSE current + upd

\* a row of table transactions
Entry(id, accountId, type, amount, ref) ==
  [id |-> id, account |-> accountId, type |-> type, amount |-> amount,
   ref |-> ref, status |-> "completed"]

\* the credit leg without the transfer id
MutCreditLeg(n, to, amount) == Entry(<<n, "credit">>, to, "credit", amount, NoRef)

\* the two INSERTs of a transfer
DebitLeg(n, from, amount) == Entry(<<n, "debit">>, from, "debit", amount, n)
CreditLeg(n, to, amount) == Entry(<<n, "credit">>, to, "credit", amount, n)

\* what this database transaction sees of a balance row: its own write, else the committed row
Visible(r, a) ==
  IF \E w \in r.written : w[1] = a
    THEN (CHOOSE w \in r.written : w[1] = a)[2]
    ELSE account_balances[a]

\* a row written by an open transaction is locked until that transaction ends
Locked(r, a) == \E o \in req \ {r} : \E w \in o.written : w[1] = a

Write(written, a, v) == {w \in written : w[1] # a} \cup {<<a, v>>}

\* a commit that makes only the debit entries visible
MutCommittedEntries(inserted) == {e \in inserted : e.type = "debit"}

\* COMMIT makes the transaction's inserts and balance writes visible together
CommittedEntries(inserted) == inserted
CommittedBalances(balances, written) ==
  [a \in Accounts |-> IF \E w \in written : w[1] = a
                        THEN (CHOOSE w \in written : w[1] = a)[2]
                        ELSE balances[a]]

\* a rollback that discards nothing
MutRolledBack(r) == r

\* ROLLBACK discards them
RolledBack(r) == [r EXCEPT !.inserted = {}, !.written = {}]

\* an end of transaction that replaces the table by the transaction's inserts
MutEndTransaction(r) ==
  /\ transactions' = CommittedEntries(r.inserted)
  /\ account_balances' = CommittedBalances(account_balances, r.written)

\* the end of a database transaction: what is left of its work becomes visible
EndTransaction(r) ==
  /\ transactions' = transactions \cup CommittedEntries(r.inserted)
  /\ account_balances' = CommittedBalances(account_balances, r.written)

Rollback(r) == EndTransaction(RolledBack(r))

\* a request is accepted while fewer than MaxConcurrent handlers run and the budget lasts
Accepting == Cardinality(req) < MaxConcurrent /\ nextReq < budget

\* handler r goes on as r2
Continue(r, r2) == req' = (req \ {r}) \cup {r2}

\* handler r answers and ends
Answer(r, status) ==
  /\ answer' = [n |-> r.n, op |-> r.op, status |-> status, about |-> r.paymentId, body |-> NoBody]
  /\ req' = req \ {r}

\* a request is answered before a handler record is kept for it
Reject(n, op, status) ==
  /\ answer' = [n |-> n, op |-> op, status |-> status, about |-> 0, body |-> NoBody]
  /\ req' = req

\* the same for a request that names a payment
RejectAbout(n, op, status, paymentId) ==
  /\ answer' = [n |-> n, op |-> op, status |-> status, about |-> paymentId, body |-> NoBody]
  /\ req' = req

\* referenceId values a caller can send: none, or the id of a transfer it has seen
KnownRefs == {NoRef} \cup {e.ref : e \in {t \in transactions : t.id[2] # "single"}}

\* app.post('/'): BEGIN, validate, ownership check
CreateTransactionBegin(user, accountId, amount, type, ref) ==
  /\ Accepting
  /\ nextReq' = nextReq + 1
  /\ LET n == nextReq + 1
         r == [IdleReq EXCEPT !.op = "createTransaction", !.n = n, !.user = user,
                              !.account = accountId, !.amount = amount, !.type = type,
                              !.ref = ref]
     IN IF ~(ValidAmount(amount) /\ ValidType(type))
          THEN Reject(n, r.op, "400 validation")
        ELSE IF ~OwnershipCheck(account_ownership, accountId, user)
          THEN Reject(n, r.op, "403 access denied")
        ELSE /\ answer' = answer
             /\ req' = req \cup {[r EXCEPT !.pc = IF type = "debit" THEN "verify" ELSE "insert"]}
  /\ UNCHANGED <<account_balances, transactions, account_ownership, budget, outerVars, txChannel, txEvents>>
  /\ UNCHANGED paymentVars

\* app.post('/transfer'): BEGIN, validate, ownership check
TransferBegin(user, from, to, amount) ==
  /\ Accepting
  /\ nextReq' = nextReq + 1
  /\ LET n == nextReq + 1
         r == [IdleReq EXCEPT !.op = "transfer", !.n = n, !.user = user, !.account = from,
                              !.to = to, !.amount = amount, !.type = "debit", !.ref = n]
     IN IF ~ValidAmount(amount)
          THEN Reject(n, r.op, "400 validation")
        ELSE IF ~OwnershipCheck(account_ownership, from, user)
          THEN Reject(n, r.op, "403 access denied")
        ELSE /\ answer' = answer
             /\ req' = req \cup {[r EXCEPT !.pc = "verify"]}
  /\ UNCHANGED <<account_balances, transactions, account_ownership, budget, outerVars, txChannel, txEvents>>
  /\ UNCHANGED paymentVars

\* verifyAccountBalance and the ROLLBACK + 400 that follows a refusal
Verify(r) ==
  /\ r.pc = "verify"
  /\ LET v == VerifyAccountBalance(account_balances, r.account, r.amount, r.type)
     IN IF v = "valid"
          THEN /\ Continue(r, [r EXCEPT !.pc = "insert",
                                     !.seen = account_balances[r.account]])
               /\ UNCHANGED <<answer, account_balances, transactions>>
          ELSE /\ Rollback(r)
               /\ Answer(r, "400 " \o v)
  /\ UNCHANGED <<account_ownership, budget, outerVars, txChannel, txEvents, nextReq>>
  /\ UNCHANGED paymentVars

\* the pool query of verifyAccountBalance raises: "Balance verification failed"
VerifyFails(r) ==
  /\ r.pc = "verify"
  /\ Rollback(r)
  /\ Answer(r, "400 Balance verification failed")
  /\ UNCHANGED <<account_ownership, budget, outerVars, txChannel, txEvents, nextReq>>
  /\ UNCHANGED paymentVars

\* INSERT INTO transactions: the single entry, or the debit leg of a transfer
Insert(r) ==
  /\ r.pc = "insert"
  /\ LET e == IF r.op = "transfer" THEN DebitLeg(r.n, r.account, r.amount)
              ELSE Entry(<<r.n, "single">>, r.account, r.type, r.amount, r.ref)
     IN Continue(r, [r EXCEPT !.inserted = r.inserted \cup {e},
                           !.pc = IF r.op = "transfer" THEN "insert2" ELSE "update"])
  /\ UNCHANGED <<account_balances, transactions, account_ownership, budget, outerVars, txChannel, txEvents, nextReq, answer>>
  /\ UNCHANGED paymentVars

\* INSERT INTO transactions: the credit leg of a transfer
InsertCredit(r) ==
  /\ r.pc = "insert2"
  /\ Continue(r, [r EXCEPT !.inserted = r.inserted \cup {CreditLeg(r.n, r.to, r.amount)},
                           !.pc = "update"])
  /\ UNCHANGED <<account_balances, transactions, account_ownership, budget, outerVars, txChannel, txEvents, nextReq, answer>>
  /\ UNCHANGED paymentVars

\* the balance upsert of createTransaction, or the source upsert of a transfer
UpdateBalance(r) ==
  /\ r.pc = "update"
  /\ ~Locked(r, r.account)
  /\ LET v == IF r.op = "transfer"
                THEN Upsert(Visible(r, r.account), r.amount, 0 - r.amount)
                ELSE Upsert(Visible(r, r.account), BalanceUpdate(r.type, r.amount),
                            BalanceUpdate(r.type, r.amount))
     IN Continue(r, [r EXCEPT !.written = Write(r.written, r.account, v),
                           !.pc = IF r.op = "transfer" THEN "update2" ELSE "commit"])
  /\ UNCHANGED <<account_balances, transactions, account_ownership, budget, outerVars, txChannel, txEvents, nextReq, answer>>
  /\ UNCHANGED paymentVars

\* the destination upsert of a transfer
UpdateDestination(r) ==
  /\ r.pc = "update2"
  /\ ~Locked(r, r.to)
  /\ Continue(r, [r EXCEPT !.written = Write(r.written, r.to,
                                                 Upsert(Visible(r, r.to), r.amount, r.amount)),
                           !.pc = "commit"])
  /\ UNCHANGED <<account_balances, transactions, account_ownership, budget, outerVars, txChannel, txEvents, nextReq, answer>>
  /\ UNCHANGED paymentVars

\* COMMIT
Commit(r) ==
  /\ r.pc = "commit"
  /\ EndTransaction(r)
  /\ Continue(r, [r EXCEPT !.pc = "publish", !.inserted = {}, !.written = {}])
  /\ UNCHANGED <<account_ownership, budget, outerVars, txChannel, txEvents, nextReq, answer>>
  /\ UNCHANGED paymentVars

\* a statement of the open transaction raises (deadlock victim, lost connection, numeric
\* overflow ...): catch, ROLLBACK, 500
StatementFails(r) ==
  /\ r.pc \in {"insert", "insert2", "update", "update2", "commit"}
  /\ r.op \in {"createTransaction", "transfer"}
  /\ Rollback(r)
  /\ Answer(r, "500")
  /\ UNCHANGED <<account_ownership, budget, outerVars, txChannel, txEvents, nextReq>>
  /\ UNCHANGED paymentVars

EventType(op) == IF op = "transfer" THEN "transfer.completed" ELSE "transaction.created"

\* publishEvent after COMMIT, then the 201; a publish on a closed channel raises,
\* and the catch block answers 500
PublishAndAnswer(r) ==
  /\ r.pc = "publish"
  /\ r.op \in {"createTransaction", "transfer"}
  /\ IF txChannel = "closed"
       THEN /\ Answer(r, "500")
            /\ txEvents' = txEvents
            /\ notifyQueue' = notifyQueue
       ELSE /\ Answer(r, "201")
            /\ txEvents' = IF txChannel = "open"
                             THEN txEvents \cup {[type |-> EventType(r.op), n |-> r.n]}
                             ELSE txEvents
            /\ notifyQueue' = IF txChannel = "open"
                                THEN Route(notifyQueue, Message(EventType(r.op), r.n, r.user))
                                ELSE notifyQueue
  /\ UNCHANGED <<account_balances, transactions, account_ownership, budget, accountVars, consumerVars,
                 txChannel, nextReq>>
  /\ UNCHANGED paymentVars

\* connectRabbitMQ succeeds
ConnectRabbitMQ ==
  /\ txChannel = "undefined"
  /\ txChannel' = "open"
  /\ UNCHANGED <<account_balances, transactions, account_ownership, budget, outerVars, txEvents, req, nextReq, answer>>
  /\ UNCHANGED paymentVars

\* the broker connection drops; `channel` keeps the dead channel object
ChannelClosed ==
  /\ txChannel = "open"
  /\ txChannel' = "closed"
  /\ UNCHANGED <<account_balances, transactions, account_ownership, budget, outerVars, txEvents, req, nextReq, answer>>
  /\ UNCHANGED paymentVars

\* --------------------------------------------------- payment-service
LargeAmount == 10000
FrequencyLimit == 5
FactorWeight == 25
ReviewThreshold == 50
\* INTERVAL '1 hour', in clock units
RiskWindow == 1

\* amounts a payment request can carry: invalid, ordinary, above the large-amount threshold
PaymentAmounts == {0, 1, LargeAmount + 1}

\* SELECT COUNT(*) FROM payments WHERE from_account_id = $1 AND created_at > NOW() - INTERVAL '1 hour'
RecentPayments(pays, from, t) ==
  Cardinality({n \in ReqIds : /\ pays[n] # NoPayment
                              /\ pays[n].from_account_id = from
                              /\ pays[n].created_at > t - RiskWindow})

\* the large-amount test with >= for >
MutRiskFactors(amount, recent) ==
  (IF amount >= LargeAmount THEN {"large_amount"} ELSE {})
    \cup (IF recent > FrequencyLimit THEN {"high_frequency"} ELSE {})

\* detectFraud
RiskFactors(amount, recent) ==
  (IF amount > LargeAmount THEN {"large_amount"} ELSE {})
    \cup (IF recent > FrequencyLimit THEN {"high_frequency"} ELSE {})
RiskScore(amount, recent) == Cardinality(RiskFactors(amount, recent)) * FactorWeight

\* the review test with >= for >
MutRequiresReview(score) == score >= ReviewThreshold

\* requiresReview: riskScore > 50
RequiresReview(score) == score > ReviewThreshold

\* amounts and counts of recent payments detectFraud is applied to
RiskAmounts == {1, LargeAmount \div 2, LargeAmount - 1, LargeAmount, LargeAmount + 1, 2 * LargeAmount}
RecentCounts == 0..MaxRecent

\* detectFraud for a proposed payment and the count its query returned
DetectFraud(r) ==
  /\ r.pc = "detectFraud"
  /\ LET riskFactors == RiskFactors(r.amount, r.recent)
         riskScore == RiskScore(r.amount, r.recent)
     IN Continue(r, [r EXCEPT !.pc = "checked",
                              !.fraudCheck = [riskScore |-> riskScore, riskFactors |-> riskFactors,
                                              requiresReview |-> RequiresReview(riskScore)]])
  /\ UNCHANGED <<account_ownership, budget, outerVars, ledgerVars, paymentVars, nextReq, answer>>

\* the test without its comparison with the clock
MutIsScheduled(scheduledAt, t) == scheduledAt # NoTime

\* paymentData.scheduledAt && new Date(paymentData.scheduledAt) > new Date()
IsScheduled(scheduledAt, t) == scheduledAt # NoTime /\ scheduledAt > t

\* a payment that is neither scheduled nor under review is stored as done
MutInitialStatus(isScheduled, requiresReview) ==
  IF isScheduled THEN "scheduled" ELSE IF requiresReview THEN "pending_review" ELSE "completed"

\* const status = isScheduled ? 'scheduled' : (requiresReview ? 'pending_review' : 'processing')
InitialStatus(isScheduled, requiresReview) ==
  IF isScheduled THEN "scheduled" ELSE IF requiresReview THEN "pending_review" ELSE "processing"

\* pool: a client is a session of the database; tx tells whether a transaction is
\* open on it, began is the time of its BEGIN, cancelled holds the payments whose
\* cancel UPDATE that transaction has made and not yet committed.
\* Idle clients without a transaction at the bottom of the list are left out: a
\* client the pool creates when none is idle is as good as one of them.
RECURSIVE Strip(_)
Strip(idle) == IF idle # <<>> /\ ~Head(idle).tx THEN Strip(Tail(idle)) ELSE idle

\* pool.connect(): the client released last, or a new one when none is idle
Acquire(idle) == IF idle = <<>> THEN CleanClient ELSE idle[Len(idle)]
Remaining(idle) == IF idle = <<>> THEN <<>> ELSE SubSeq(idle, 1, Len(idle) - 1)

\* a release that rolls back what the client has open

\* client.release(): the client goes back as it is
Release(idle, c) == Strip(Append(idle, c))

\* BEGIN: opens a transaction; inside an open one it only warns
Begin(c, t) == IF c.tx THEN c ELSE [tx |-> TRUE, began |-> t, cancelled |-> {}]

\* NOW() on a client: the start of its open transaction, else the clock
SessionNow(c, t) == IF c.tx THEN c.began ELSE t

\* the payments table as a statement on client c sees it, and as it is after COMMIT
Seen(pays, c) ==
  [n \in ReqIds |-> IF n \in c.cancelled
                      THEN [pays[n] EXCEPT !.status = "cancelled", !.updated_at = c.began]
                      ELSE pays[n]]

\* a row updated in the open transaction of another client than the one acquired
RowLocked(paymentId) ==
  \/ \E i \in 1..(Len(payIdle) - 1) : paymentId \in payIdle[i].cancelled
  \/ \E r \in req : paymentId \in r.client.cancelled

\* the status app.post('/') chooses from the result of detectFraud
ChooseStatus(r) ==
  /\ r.pc = "checked"
  /\ Continue(r, [r EXCEPT !.pc = "chosen",
                           !.row = [status |-> InitialStatus(IsScheduled(r.scheduledAt, now),
                                                             r.fraudCheck.requiresReview)]])
  /\ UNCHANGED <<account_ownership, budget, outerVars, ledgerVars, paymentVars, nextReq, answer>>

\* the WHERE clause without the join on account_ownership
MutCancellableAnyCaller(pays, ownership, paymentId, userId) ==
  /\ pays[paymentId] # NoPayment
  /\ pays[paymentId].status \in {"scheduled", "pending_review"}

\* the WHERE clause with 'cancelled' among the statuses
MutCancellableAgain(pays, ownership, paymentId, userId) ==
  /\ pays[paymentId] # NoPayment
  /\ <<pays[paymentId].from_account_id, userId>> \in ownership
  /\ pays[paymentId].status \in {"scheduled", "pending_review", "cancelled"}

\* the WHERE clause with 'processing' among the statuses
MutCancellableProcessing(pays, ownership, paymentId, userId) ==
  /\ pays[paymentId] # NoPayment
  /\ <<pays[paymentId].from_account_id, userId>> \in ownership
  /\ pays[paymentId].status \in {"scheduled", "pending_review", "processing"}

\* the WHERE clause of the cancel UPDATE
Cancellable(pays, ownership, paymentId, userId) ==
  /\ pays[paymentId] # NoPayment
  /\ <<pays[paymentId].from_account_id, userId>> \in ownership
  /\ pays[paymentId].status \in {"scheduled", "pending_review"}

\* app.post('/'): pool.connect(), BEGIN, validate (400 and the release in `finally`,
\* without ROLLBACK), ownership check (ROLLBACK, 403, release)
PaymentBegin(user, from, to, amount, scheduledAt) ==
  /\ Accepting
  /\ nextReq' = nextReq + 1
  /\ LET n == nextReq + 1
         r == [IdleReq EXCEPT !.op = "createPayment", !.n = n, !.user = user, !.account = from,
                              !.to = to, !.amount = amount, !.scheduledAt = scheduledAt,
                              !.began = now]
         client == Begin(Acquire(payIdle), now)
     IN IF ~ValidAmount(amount)
          THEN /\ Reject(n, r.op, "400 validation")
               /\ payIdle' = Release(Remaining(payIdle), client)
        ELSE IF ~OwnershipCheck(account_ownership, from, user)
          THEN /\ Reject(n, r.op, "403 access denied")
               /\ payIdle' = Release(Remaining(payIdle), CleanClient)
        ELSE /\ answer' = answer
             /\ req' = req \cup {[r EXCEPT !.pc = "fraud", !.client = client,
                                            !.began = client.began]}
             /\ payIdle' = Remaining(payIdle)
  /\ UNCHANGED <<account_ownership, budget, outerVars, ledgerVars, payments, payChannel, payEvents,
                 processing, now>>

\* detectFraud, the choice of the status, and the INSERT INTO payments
DetectFraudAndInsert(r) ==
  /\ r.pc = "fraud"
  /\ LET score == RiskScore(r.amount, RecentPayments(payments, r.account,
                                                       SessionNow(Acquire(payIdle), now)))
         status == InitialStatus(IsScheduled(r.scheduledAt, now), RequiresReview(score))
     IN Continue(r, [r EXCEPT !.pc = "commitPayment",
                           !.row = [from_account_id |-> r.account, to_account_id |-> r.to,
                                       amount |-> r.amount, status |-> status,
                                       scheduled_at |-> r.scheduledAt, risk_score |-> score,
                                       created_at |-> r.began, updated_at |-> NoTime]])
  /\ UNCHANGED <<account_ownership, budget, outerVars, ledgerVars, paymentVars, nextReq, answer>>

\* COMMIT: the row, and whatever else the client's transaction held
PaymentCommit(r) ==
  /\ r.pc = "commitPayment"
  /\ payments' = [Seen(payments, r.client) EXCEPT ![r.n] = r.row]
  /\ Continue(r, [r EXCEPT !.pc = IF r.row.status = "processing" THEN "enqueue" ELSE "publish",
                           !.client = CleanClient])
  /\ UNCHANGED <<account_ownership, budget, outerVars, ledgerVars, payChannel, payEvents, processing,
                 now, payIdle, nextReq, answer>>

\* a statement of the open transaction raises: catch, ROLLBACK, 500, release
PaymentStatementFails(r) ==
  /\ r.pc \in {"fraud", "commitPayment"}
  /\ Answer(r, "500")
  /\ payIdle' = Release(payIdle, CleanClient)
  /\ UNCHANGED <<account_ownership, budget, outerVars, ledgerVars, payments, payChannel, payEvents,
                 processing, now, nextReq>>

\* channel.sendToQueue('payment.processing', ...) for a payment created in status processing
PaymentEnqueue(r) ==
  /\ r.pc = "enqueue"
  /\ IF payChannel = "closed"
       THEN /\ Answer(r, "500")
            /\ processing' = processing
            /\ payIdle' = Release(payIdle, r.client)
       ELSE /\ Continue(r, [r EXCEPT !.pc = "publish"])
            /\ answer' = answer
            /\ processing' = IF payChannel = "open"
                               THEN Append(processing, [paymentId |-> r.n, scheduled |-> FALSE])
                               ELSE processing
            /\ payIdle' = payIdle
  /\ UNCHANGED <<account_ownership, budget, outerVars, ledgerVars, payments, payChannel, payEvents, now, nextReq>>

\* app.delete('/:paymentId'): pool.query runs the UPDATE ... RETURNING on the client
\* it acquires, inside the transaction that client has open if it has one; 404 when
\* it matches no row. The UPDATE waits while another client's transaction holds the row.
CancelPayment(user, paymentId) ==
  /\ Accepting
  /\ ~RowLocked(paymentId)
  /\ nextReq' = nextReq + 1
  /\ LET n == nextReq + 1
         client == Acquire(payIdle)
     IN IF Cancellable(Seen(payments, client), account_ownership, paymentId, user)
          THEN /\ IF client.tx
                    THEN /\ payments' = payments
                         /\ payIdle' = Release(Remaining(payIdle),
                                               [client EXCEPT !.cancelled = @ \cup {paymentId}])
                    ELSE /\ payments' = [payments EXCEPT ![paymentId].status = "cancelled",
                                                          ![paymentId].updated_at = now]
                         /\ payIdle' = payIdle
               /\ req' = req \cup {[IdleReq EXCEPT !.op = "cancelPayment", !.n = n,
                                                   !.user = user, !.paymentId = paymentId,
                                                   !.pc = "publish"]}
               /\ answer' = answer
          ELSE /\ RejectAbout(n, "cancelPayment", "404", paymentId)
               /\ payments' = payments
               /\ payIdle' = payIdle
  /\ UNCHANGED <<account_ownership, budget, outerVars, ledgerVars, payChannel, payEvents, processing, now>>

\* the payments a query returns without the join on account_ownership
MutPaymentsOf(pays, ownership, userId) == {n \in ReqIds : pays[n] # NoPayment}

\* FROM payments p JOIN account_ownership ao ON p.from_account_id = ao.account_id
\* WHERE ao.user_id = $userId
PaymentsOf(pays, ownership, userId) ==
  {n \in ReqIds : pays[n] # NoPayment /\ <<pays[n].from_account_id, userId>> \in ownership}

\* the rows of an answer, as the handlers map them
PaymentRows(pays, ids) ==
  {[id |-> n, fromAccountId |-> pays[n].from_account_id, status |-> pays[n].status] : n \in ids}

StatusFilters == {"none", "processing", "scheduled", "pending_review", "cancelled"}

\* app.get('/:paymentId'): one SELECT, 404 when it returns no row, 500 when it raises
GetPayment(user, paymentId) ==
  /\ Accepting
  /\ nextReq' = nextReq + 1
  /\ LET seen == Seen(payments, Acquire(payIdle))
         ids == PaymentsOf(seen, account_ownership, user) \cap {paymentId}
     IN \/ answer' = [n |-> nextReq + 1, op |-> "getPayment",
                      status |-> IF ids = {} THEN "404" ELSE "200", about |-> paymentId,
                      body |-> [NoBody EXCEPT !.user = user, !.rows = PaymentRows(seen, ids)]]
        \/ answer' = [n |-> nextReq + 1, op |-> "getPayment", status |-> "500",
                      about |-> paymentId, body |-> [NoBody EXCEPT !.user = user]]
  /\ UNCHANGED <<account_ownership, budget, outerVars, ledgerVars, paymentVars, req>>

\* app.get('/'): one SELECT with the optional status filter, 500 when it raises; the
\* page of 20 rows holds every payment there can be
ListPayments(user, status) ==
  /\ Accepting
  /\ nextReq' = nextReq + 1
  /\ LET seen == Seen(payments, Acquire(payIdle))
         ids == {n \in PaymentsOf(seen, account_ownership, user) :
                   status # "none" => seen[n].status = status}
     IN \/ answer' = [n |-> nextReq + 1, op |-> "listPayments", status |-> "200", about |-> 0,
                      body |-> [NoBody EXCEPT !.user = user, !.rows = PaymentRows(seen, ids)]]
        \/ answer' = [n |-> nextReq + 1, op |-> "listPayments", status |-> "500", about |-> 0,
                      body |-> [NoBody EXCEPT !.user = user]]
  /\ UNCHANGED <<account_ownership, budget, outerVars, ledgerVars, paymentVars, req>>

\* publishEvent('payment.created', ...) after COMMIT, publishEvent('payment.cancelled', ...)
\* after the UPDATE returned a row
PaymentEvent(r) ==
  IF r.op = "createPayment"
    THEN [type |-> "payment.created", n |-> r.n, paymentId |-> r.n]
    ELSE [type |-> "payment.cancelled", n |-> r.n, paymentId |-> r.paymentId]

\* publishEvent, then the answer; a publish on a closed channel raises and the catch
\* block answers 500; app.post('/') releases its client in `finally`
PaymentPublishAndAnswer(r) ==
  /\ r.pc = "publish"
  /\ r.op \in {"createPayment", "cancelPayment"}
  /\ payIdle' = IF r.op = "createPayment" THEN Release(payIdle, r.client) ELSE payIdle
  /\ IF payChannel = "closed"
       THEN /\ Answer(r, "500")
            /\ payEvents' = payEvents
            /\ notifyQueue' = notifyQueue
       ELSE /\ Answer(r, IF r.op = "createPayment" THEN "201" ELSE "200")
            /\ payEvents' = IF payChannel = "open" THEN payEvents \cup {PaymentEvent(r)}
                            ELSE payEvents
            /\ notifyQueue' = IF payChannel = "open"
                                THEN Route(notifyQueue, Message(PaymentEvent(r).type, r.n, r.user))
                                ELSE notifyQueue
  /\ UNCHANGED <<account_ownership, budget, accountVars, consumerVars, ledgerVars, payments,
                 payChannel, processing, now, nextReq>>

\* the SELECT without its condition on scheduled_at
MutDuePayments(pays, t) ==
  {n \in ReqIds : pays[n] # NoPayment /\ pays[n].status = "scheduled"}

\* SELECT * FROM payments WHERE status = 'scheduled' AND scheduled_at <= NOW()
DuePayments(pays, t) ==
  {n \in ReqIds : pays[n] # NoPayment /\ pays[n].status = "scheduled" /\ pays[n].scheduled_at <= t}

\* the orders in which the rows of a result set can come
RECURSIVE Orders(_)
Orders(S) ==
  IF S = {} THEN {<<>>}
  ELSE UNION {{<<x>> \o o : o \in Orders(S \ {x})} : x \in S}

\* the rows the sweep's pool.query returns on the client it acquires
DueNow == DuePayments(Seen(payments, Acquire(payIdle)), SessionNow(Acquire(payIdle), now))

\* cron.schedule('* * * * *'): every due scheduled payment is sent to payment.processing
CronSweep ==
  /\ payChannel = "open"
  /\ DueNow # {}
  /\ Len(processing) + Cardinality(DueNow) <= MaxQueue
  /\ \E o \in Orders(DueNow) :
       processing' = processing \o [i \in 1..Len(o) |-> [paymentId |-> o[i], scheduled |-> TRUE]]
  /\ UNCHANGED <<account_ownership, budget, outerVars, ledgerVars, payments, payChannel, payEvents, now,
                 payIdle, req, nextReq, answer>>

\* an idle client reaches the pool's idle timeout and is closed; the database rolls
\* back the transaction it had open
IdleTimeout ==
  /\ \E i \in 1..Len(payIdle) :
       payIdle' = Strip(SubSeq(payIdle, 1, i - 1) \o SubSeq(payIdle, i + 1, Len(payIdle)))
  /\ UNCHANGED <<account_ownership, budget, outerVars, ledgerVars, payments, payChannel, payEvents,
                 processing, now, req, nextReq, answer>>

\* time passes
Tick ==
  /\ now < MaxTime
  /\ now' = now + 1
  /\ UNCHANGED <<account_ownership, budget, outerVars, ledgerVars, payments, payChannel, payEvents, processing,
                 payIdle, req, nextReq, answer>>

\* connectRabbitMQ succeeds
PayConnectRabbitMQ ==
  /\ payChannel = "undefined"
  /\ payChannel' = "open"
  /\ UNCHANGED <<account_ownership, budget, outerVars, ledgerVars, payments, payEvents, processing, now,
                 payIdle, req, nextReq, answer>>

\* the broker connection drops; `channel` keeps the dead channel object
PayChannelClosed ==
  /\ payChannel = "open"
  /\ payChannel' = "closed"
  /\ UNCHANGED <<account_ownership, budget, outerVars, ledgerVars, payments, payEvents, processing, now,
                 payIdle, req, nextReq, answer>>

\* ---------------------------------------------------- account-service
\* money of the account service is counted in thousandths of a unit, so that a
\* deposit can carry a third decimal; a NUMERIC(15,2) value is <<units, hundredths>>

\* initialDeposit values a caller can send: 0, 0.004, 0.005, 1, 1.235, and -0.001
Deposits == {0, 4, 5, 1000, 1235, -1}

\* Joi.number().min(0)
ValidDeposit(d) == d >= 0

\* a conversion to NUMERIC(15,2) that drops the third decimal
MutToNumeric(d) == <<d \div 1000, (d % 1000) \div 10>>

\* the conversion of a number to balance DECIMAL(15,2): rounded to two decimals,
\* ties away from zero
ToNumeric(d) == <<(d + 5) \div 1000, ((d + 5) % 1000) \div 10>>

\* parseFloat of the text of a NUMERIC(15,2) value
ParseFloat(numeric) == numeric[1] * 1000 + numeric[2] * 10

\* the answer's account object, or the balance answer, and the caller who gets it
AccountBody(user, row) ==
  [NoBody EXCEPT !.user = user, !.balance = ParseFloat(row.balance), !.currency = row.currency]

\* a cache test that does not look at the owner
MutCacheHit(cached, userId) == cached # NoAccountRow

\* if (cachedAccount) { ... if (account.user_id === req.user.userId)
CacheHit(cached, userId) == cached # NoAccountRow /\ cached.user_id = userId

\* app.post('/'): validation and INSERT INTO accounts ... RETURNING *; the INSERT can
\* raise (account_number taken), which the catch block answers with 500
CreateAccount(user, d) ==
  /\ Accepting
  /\ nextReq' = nextReq + 1
  /\ LET n == nextReq + 1
         row == [user_id |-> user, balance |-> ToNumeric(d), currency |-> "USD", status |-> "active"]
     IN IF ~ValidDeposit(d)
          THEN Reject(n, "createAccount", "400 validation") /\ accounts' = accounts
          ELSE \/ /\ accounts' = [accounts EXCEPT ![n] = row]
                  /\ req' = req \cup {[IdleReq EXCEPT !.op = "createAccount", !.pc = "cache", !.n = n,
                                                      !.user = user, !.amount = d, !.row = row,
                                                      !.paymentId = n]}
                  /\ answer' = answer
               \/ Reject(n, "createAccount", "500") /\ accounts' = accounts
  /\ UNCHANGED <<account_ownership, budget, accountCache, notifyVars, ledgerVars, paymentVars>>

\* redisClient.setEx(`account:${id}`, 3600, ...) and the answer: 201 after create, 200
\* after a read; a Redis error is answered with 500
CacheAndAnswer(r) ==
  /\ r.pc = "cache"
  /\ \/ /\ accountCache' = [accountCache EXCEPT ![r.paymentId] = r.row]
        /\ answer' = [n |-> r.n, op |-> r.op,
                      status |-> IF r.op = "createAccount" THEN "201" ELSE "200",
                      about |-> r.paymentId, body |-> AccountBody(r.user, r.row)]
     \/ /\ accountCache' = accountCache
        /\ answer' = [n |-> r.n, op |-> r.op, status |-> "500", about |-> r.paymentId,
                      body |-> [NoBody EXCEPT !.user = r.user]]
  /\ req' = req \ {r}
  /\ UNCHANGED <<account_ownership, budget, accounts, notifyVars, ledgerVars, paymentVars, nextReq>>

\* app.get('/:accountId'): the cached account is answered when it belongs to the caller
GetAccount(user, accountId) ==
  /\ Accepting
  /\ nextReq' = nextReq + 1
  /\ LET n == nextReq + 1
         cached == accountCache[accountId]
     IN IF CacheHit(cached, user)
          THEN /\ answer' = [n |-> n, op |-> "getAccount", status |-> "200", about |-> accountId,
                             body |-> AccountBody(user, cached)]
               /\ req' = req
          ELSE /\ answer' = answer
               /\ req' = req \cup {[IdleReq EXCEPT !.op = "getAccount", !.pc = "select", !.n = n,
                                                   !.user = user, !.paymentId = accountId]}
  /\ UNCHANGED <<account_ownership, budget, accountVars, notifyVars, ledgerVars, paymentVars>>

\* the answer of an account request that found no row, or that raised
AccountError(r, status) ==
  /\ answer' = [n |-> r.n, op |-> r.op, status |-> status, about |-> r.paymentId,
                body |-> [NoBody EXCEPT !.user = r.user]]
  /\ req' = req \ {r}

\* SELECT * FROM accounts WHERE id = $1 AND user_id = $2, 404 when there is no row,
\* 500 when it raises
SelectAccount(r) ==
  /\ r.pc = "select"
  /\ LET row == accounts[r.paymentId]
     IN \/ IF row # NoAccountRow /\ row.user_id = r.user
             THEN /\ Continue(r, [r EXCEPT !.pc = "cache", !.row = row])
                  /\ answer' = answer
             ELSE AccountError(r, "404")
        \/ AccountError(r, "500")
  /\ UNCHANGED <<account_ownership, budget, accountVars, notifyVars, ledgerVars, paymentVars, nextReq>>

\* app.get('/:accountId/balance'): one SELECT, 404 when there is no row, 500 when it raises
GetBalance(user, accountId) ==
  /\ Accepting
  /\ nextReq' = nextReq + 1
  /\ LET n == nextReq + 1
         row == accounts[accountId]
     IN \/ answer' = IF row # NoAccountRow /\ row.user_id = user
                       THEN [n |-> n, op |-> "getBalance", status |-> "200", about |-> accountId,
                             body |-> AccountBody(user, row)]
                       ELSE [n |-> n, op |-> "getBalance", status |-> "404", about |-> accountId,
                             body |-> [NoBody EXCEPT !.user = user]]
        \/ answer' = [n |-> n, op |-> "getBalance", status |-> "500", about |-> accountId,
                      body |-> [NoBody EXCEPT !.user = user]]
  /\ UNCHANGED <<account_ownership, budget, accountVars, notifyVars, ledgerVars, paymentVars, req>>

\* a key account:<id> expires after its 3600 seconds
CacheExpires(accountId) ==
  /\ accountCache[accountId] # NoAccountRow
  /\ accountCache' = [accountCache EXCEPT ![accountId] = NoAccountRow]
  /\ UNCHANGED <<account_ownership, budget, accounts, notifyVars, ledgerVars, paymentVars, req,
                 nextReq, answer>>

\* ----------------------------------------------- notification-service
InboxLimit == 100
Templates == {"transaction.created", "transfer.completed", "payment.created", "account.created"}

\* consume with automatic acknowledgement
MutNoAck == TRUE

\* channel.consume('notifications', handleBankingEvent, { noAck: false })
NoAck == FALSE

\* the messages of a sequence, and the messages the broker still holds for the consumer
Range(q) == {q[i] : i \in 1..Len(q)}
Unacked == {h.msg : h \in {c \in consuming : c.tag = "valid"}}
Requeue(msg) == [msg EXCEPT !.redelivered = TRUE]

\* connectRabbitMQ succeeds: the queue is declared and bound, consumption starts
NotifyConnectRabbitMQ ==
  /\ notifyChannel = "undefined"
  /\ notifyChannel' = "open"
  /\ UNCHANGED <<account_ownership, budget, accountVars, ledgerVars, paymentVars, notifyQueue,
                 consuming, inbox, req, nextReq, answer>>

\* the broker connection drops: the broker requeues what was not acknowledged; the
\* handlers in flight go on with delivery tags that are no longer valid
NotifyChannelClosed ==
  /\ notifyChannel = "open"
  /\ notifyChannel' = "closed"
  /\ \E o \in Orders(Unacked) :
       notifyQueue' = [i \in 1..Len(o) |-> Requeue(o[i])] \o notifyQueue
  /\ consuming' = {[h EXCEPT !.tag = "stale"] : h \in consuming}
  /\ UNCHANGED <<account_ownership, budget, accountVars, ledgerVars, paymentVars, inbox, req,
                 nextReq, answer>>

\* the service is started again: connectRabbitMQ() at start-up, no handler survives
NotifyRestart ==
  /\ notifyChannel = "closed"
  /\ notifyChannel' = "open"
  /\ consuming' = {}
  /\ UNCHANGED <<account_ownership, budget, accountVars, ledgerVars, paymentVars, notifyQueue,
                 inbox, req, nextReq, answer>>

\* the broker delivers the head of the queue: handleBankingEvent(msg) is called
Deliver ==
  /\ notifyChannel = "open"
  /\ notifyQueue # <<>>
  /\ Cardinality(consuming) < MaxConsuming
  /\ \A u \in Users : Len(inbox[u]) < MaxInbox
  /\ consuming' = consuming \cup {[msg |-> Head(notifyQueue), pc |-> "handle",
                                    tag |-> IF NoAck THEN "none" ELSE "valid"]}
  /\ notifyQueue' = Tail(notifyQueue)
  /\ UNCHANGED <<account_ownership, budget, accountVars, ledgerVars, paymentVars, notifyChannel,
                 inbox, req, nextReq, answer>>

\* channel.ack / channel.nack take effect on an open channel for a valid delivery tag;
\* on a closed channel they raise
Effective(h) == notifyChannel = "open" /\ h.tag = "valid"

\* redisClient.lpush and ltrim 0 99
Lpush(list, n) == SubSeq(<<n>> \o list, 1, IF Len(list) + 1 < InboxLimit THEN Len(list) + 1 ELSE InboxLimit)

\* handleBankingEvent up to the notification: a message that does not parse is
\* nack'ed with requeue, one without template is ack'ed, any other is stored in the
\* user's list
HandleBankingEvent(h) ==
  /\ h.pc = "handle"
  /\ IF h.msg.type = "malformed"
       THEN /\ consuming' = consuming \ {h}
            /\ notifyQueue' = IF Effective(h) THEN <<Requeue(h.msg)>> \o notifyQueue ELSE notifyQueue
            /\ inbox' = inbox
     ELSE IF h.msg.type \notin Templates
       THEN /\ consuming' = consuming \ {h}
            /\ UNCHANGED <<notifyQueue, inbox>>
     ELSE /\ consuming' = (consuming \ {h}) \cup {[h EXCEPT !.pc = "ack"]}
          /\ inbox' = [inbox EXCEPT ![h.msg.user] = Lpush(@, h.msg.n)]
          /\ notifyQueue' = notifyQueue
  /\ UNCHANGED <<account_ownership, budget, accountVars, ledgerVars, paymentVars, notifyChannel,
                 req, nextReq, answer>>

\* channel.ack(msg) after the notifications were sent; when it raises, the catch
\* block's nack raises too and the handler ends
AckEvent(h) ==
  /\ h.pc = "ack"
  /\ consuming' = consuming \ {h}
  /\ UNCHANGED <<account_ownership, budget, accountVars, ledgerVars, paymentVars, notifyChannel,
                 notifyQueue, inbox, req, nextReq, answer>>

\* another publisher of banking.events sends a message that is not JSON
ForeignPublish ==
  /\ Bound
  /\ \A m \in Range(notifyQueue) \cup {h.msg : h \in consuming} : m.type # "malformed"
  /\ notifyQueue' = Route(notifyQueue, Message("malformed", 0, 0))
  /\ UNCHANGED <<account_ownership, budget, accountVars, ledgerVars, paymentVars, notifyChannel,
                 consuming, inbox, req, nextReq, answer>>

\* ------------------------------------------------------- specification
InitialOwnership == {<<a, ((a - 1) % NumUsers) + 1>> : a \in Accounts}

InitTables(b) ==
  /\ budget = b
  /\ account_balances = [a \in Accounts |-> NoRow]
  /\ transactions = {}
  /\ account_ownership = InitialOwnership
  /\ txChannel = "undefined"
  /\ txEvents = {}
  /\ nextReq = 0
  /\ answer = [n |-> 0, op |-> "none", status |-> "none", about |-> 0, body |-> NoBody]
  /\ payments = [n \in ReqIds |-> NoPayment]
  /\ payChannel = "undefined"
  /\ payEvents = {}
  /\ processing = <<>>
  /\ now = 0
  /\ payIdle = <<>>
  /\ accounts = [n \in ReqIds |-> NoAccountRow]
  /\ accountCache = [n \in ReqIds |-> NoAccountRow]
  /\ notifyChannel = "undefined"
  /\ notifyQueue = <<>>
  /\ consuming = {}
  /\ inbox = [u \in Users |-> <<>>]

InitWith(b) == InitTables(b) /\ req = {}

Init == InitWith(MaxRequests)
InitPayments == InitWith(MaxPaymentRequests)
InitAll == InitWith(MaxRequestsAll)

Next ==
  \/ \E u \in Users, a \in Accounts, m \in 0..MaxAmount,
        t \in {"debit", "credit"}, ref \in KnownRefs :
        CreateTransactionBegin(u, a, m, t, ref)
  \/ \E u \in Users, a \in Accounts, b \in Accounts, m \in 0..MaxAmount :
        TransferBegin(u, a, b, m)
  \/ \E r \in req : Verify(r)
  \/ \E r \in req : VerifyFails(r)
  \/ \E r \in req : Insert(r)
  \/ \E r \in req : InsertCredit(r)
  \/ \E r \in req : UpdateBalance(r)
  \/ \E r \in req : UpdateDestination(r)
  \/ \E r \in req : Commit(r)
  \/ \E r \in req : StatementFails(r)
  \/ \E r \in req : PublishAndAnswer(r)
  \/ ConnectRabbitMQ
  \/ ChannelClosed

NextPayments ==
  \/ \E u \in Users, a \in Accounts, b \in {NoAccount, NumAccounts},
        m \in PaymentAmounts, t \in {NoTime, MaxTime} :
        PaymentBegin(u, a, b, m, t)
  \/ \E r \in req : DetectFraudAndInsert(r)
  \/ \E r \in req : PaymentCommit(r)
  \/ \E r \in req : PaymentStatementFails(r)
  \/ \E r \in req : PaymentEnqueue(r)
  \/ \E u \in Users, p \in ReqIds : CancelPayment(u, p)
  \/ \E r \in req : PaymentPublishAndAnswer(r)
  \/ CronSweep
  \/ Tick
  \/ PayConnectRabbitMQ
  \/ PayChannelClosed
  \/ IdleTimeout

NextAll == Next \/ NextPayments

\* transaction-service alone
Spec == Init /\ [][Next]_vars
\* payment-service alone
SpecPayments == InitPayments /\ [][NextPayments]_vars
\* both services, with a smaller budget of requests
SpecAll == InitAll /\ [][NextAll]_vars

\* payment-service alone with payments of one amount from one account, which leaves
\* room for a third request
InitLifecycle == InitWith(MaxLifecycleRequests)
NextLifecycle ==
  \/ \E u \in Users, m \in {0, 1}, t \in {NoTime, MaxTime} : PaymentBegin(u, 1, NoAccount, m, t)
  \/ \E r \in req : DetectFraudAndInsert(r)
  \/ \E r \in req : PaymentCommit(r)
  \/ \E r \in req : PaymentStatementFails(r)
  \/ \E r \in req : PaymentEnqueue(r)
  \/ \E u \in Users, p \in ReqIds : CancelPayment(u, p)
  \/ \E r \in req : PaymentPublishAndAnswer(r)
  \/ CronSweep
  \/ Tick
  \/ PayConnectRabbitMQ
  \/ PayChannelClosed
  \/ IdleTimeout
SpecLifecycle == InitLifecycle /\ [][NextLifecycle]_vars

\* payment-service with its queries: payments of one amount from either account
InitQueries == InitWith(MaxQueryRequests)
NextQueries ==
  \/ \E u \in Users, a \in Accounts, m \in {0, 1}, t \in {NoTime, MaxTime} :
        PaymentBegin(u, a, NoAccount, m, t)
  \/ \E r \in req : DetectFraudAndInsert(r)
  \/ \E r \in req : PaymentCommit(r)
  \/ \E r \in req : PaymentStatementFails(r)
  \/ \E r \in req : PaymentEnqueue(r)
  \/ \E u \in Users, p \in ReqIds : CancelPayment(u, p)
  \/ \E r \in req : PaymentPublishAndAnswer(r)
  \/ \E u \in Users, p \in ReqIds : GetPayment(u, p)
  \/ \E u \in Users, f \in StatusFilters : ListPayments(u, f)
  \/ PayConnectRabbitMQ
  \/ PayChannelClosed
  \/ IdleTimeout
SpecQueries == InitQueries /\ [][NextQueries]_vars

\* account-service alone
InitAccounts == InitWith(MaxAccountRequests)
NextAccounts ==
  \/ \E u \in Users, d \in Deposits : CreateAccount(u, d)
  \/ \E r \in req : CacheAndAnswer(r)
  \/ \E u \in Users, a \in ReqIds : GetAccount(u, a)
  \/ \E r \in req : SelectAccount(r)
  \/ \E u \in Users, a \in ReqIds : GetBalance(u, a)
  \/ \E a \in ReqIds : CacheExpires(a)
SpecAccounts == InitAccounts /\ [][NextAccounts]_vars

\* transaction-service publishing credits of one unit on account 1, and
\* notification-service consuming them
InitEvents == InitWith(MaxEventRequests)
NextEvents ==
  \/ \E u \in Users : CreateTransactionBegin(u, 1, 1, "credit", NoRef)
  \/ \E r \in req : Insert(r)
  \/ \E r \in req : UpdateBalance(r)
  \/ \E r \in req : Commit(r)
  \/ \E r \in req : StatementFails(r)
  \/ \E r \in req : PublishAndAnswer(r)
  \/ ConnectRabbitMQ
  \/ ChannelClosed
  \/ NotifyConnectRabbitMQ
  \/ NotifyChannelClosed
  \/ NotifyRestart
  \/ Deliver
  \/ \E h \in consuming : HandleBankingEvent(h)
  \/ \E h \in consuming : AckEvent(h)
  \/ ForeignPublish
SpecEvents == InitEvents /\ [][NextEvents]_vars

\* detectFraud alone, applied to each amount and each count of recent payments
InitRisk ==
  /\ InitTables(0)
  /\ \E m \in RiskAmounts, k \in RecentCounts :
       req = {[IdleReq EXCEPT !.op = "detectFraud", !.pc = "detectFraud", !.amount = m, !.recent = k]}
NextRisk == \E r \in req : DetectFraud(r)
SpecRisk == InitRisk /\ [][NextRisk]_vars

\* detectFraud and the choice of the status, for each amount, each count of recent
\* payments, and with and without scheduledAt
InitReview ==
  /\ InitTables(0)
  /\ \E m \in RiskAmounts, k \in RecentCounts, t \in {NoTime, 0, MaxTime} :
       req = {[IdleReq EXCEPT !.op = "detectFraud", !.pc = "detectFraud", !.amount = m,
                              !.recent = k, !.scheduledAt = t]}
NextReview ==
  \/ \E r \in req : DetectFraud(r)
  \/ \E r \in req : ChooseStatus(r)
SpecReview == InitReview /\ [][NextReview]_vars

\* payment-service alone, one request, with the scheduling the runtime gives: a
\* handler that can take a step takes one, the cron job keeps firing, time passes,
\* and the connection to the broker is made
InitFair == InitWith(MaxFairRequests)
HandlerStep ==
  \E r \in req : \/ DetectFraudAndInsert(r)
                  \/ PaymentCommit(r)
                  \/ PaymentEnqueue(r)
                  \/ PaymentPublishAndAnswer(r)
SpecPaymentsFair ==
  /\ InitFair /\ [][NextPayments]_vars
  /\ WF_vars(HandlerStep) /\ WF_vars(CronSweep) /\ WF_vars(Tick) /\ WF_vars(PayConnectRabbitMQ)
  /\ WF_vars(IdleTimeout)

\* ------------------------------------------------------------- claims
EntriesOf(n) == {e \in transactions : e.id[1] = n}
EntriesOn(a, type) == {e \in transactions : e.account = a /\ e.type = type}

RECURSIVE SumAmounts(_)
SumAmounts(S) ==
  IF S = {} THEN 0
  ELSE LET e == CHOOSE x \in S : TRUE IN e.amount + SumAmounts(S \ {e})

\* the handler r takes this step and ends with it
Ends(r) == r \in req /\ \A o \in req' : o.n # r.n
\* the handler r takes this step
Steps(r) == r \in req /\ r \notin req'

\* C1: in every reachable state the balance row of an account equals the sum of its
\* committed credit entries minus the sum of its committed debit entries, and an
\* account without a balance row has no committed entry.
InvBalanceIsSignedSum ==
  \A a \in Accounts :
    IF account_balances[a] = NoRow
      THEN EntriesOn(a, "credit") \cup EntriesOn(a, "debit") = {}
      ELSE account_balances[a] = SumAmounts(EntriesOn(a, "credit")) - SumAmounts(EntriesOn(a, "debit"))

\* an account with committed credits and debits while another transaction holds
\* an uncommitted write
WitBalanceUnderConcurrency ==
  \E a \in Accounts :
    /\ EntriesOn(a, "credit") # {} /\ EntriesOn(a, "debit") # {}
    /\ \E r \in req : \E w \in r.written : w[1] = a

\* C2: two transfers in flight together that debit the same source in favour of
\* another account, each checked against the same balance, each amount at most that
\* balance and their sum above it, never both commit.
ClaimOneOfTwoDebitsCommits ==
  \A r1 \in req : \A r2 \in req \ {r1} :
    ( /\ r1.op = "transfer" /\ r2.op = "transfer"
      /\ r1.account = r2.account
      /\ r1.to # r1.account /\ r2.to # r2.account
      /\ r1.seen # NoRow /\ r1.seen = r2.seen
      /\ r1.amount <= r1.seen /\ r2.amount <= r2.seen
      /\ r1.amount + r2.amount > r1.seen )
    => ~(r1.pc = "publish" /\ r2.pc = "publish")

\* C3: no balance row is ever negative.
ClaimNoNegativeBalance ==
  \A a \in Accounts : account_balances[a] = NoRow \/ account_balances[a] >= 0

\* C4: a transfer whose amount exceeds the source balance read by its funds check
\* answers Insufficient funds in that step, which leaves the entries and all
\* balances as they were; the request has no entry afterwards.
RefusedForFunds(r) ==
  /\ r.op = "transfer" /\ r.pc = "verify"
  /\ account_balances[r.account] # NoRow
  /\ r.amount > account_balances[r.account]
  /\ Steps(r)
  /\ answer'.status # "400 Balance verification failed"
ThmOverdrawnTransferRefused ==
  /\ [](answer.status = "400 Insufficient funds" => EntriesOf(answer.n) = {})
  /\ [][\A r \in req : RefusedForFunds(r) =>
          /\ answer' = [n |-> r.n, op |-> "transfer", status |-> "400 Insufficient funds", about |-> 0, body |-> NoBody]
          /\ Ends(r)
          /\ r.inserted = {} /\ r.written = {}
          /\ UNCHANGED <<transactions, account_balances>>]_vars

\* a transfer refused for funds on an account that holds money
WitOverdrawnTransferRefused ==
  /\ answer.op = "transfer" /\ answer.status = "400 Insufficient funds"
  /\ \E a \in Accounts : account_balances[a] > 0

TransferCommitted(n) == \E e \in transactions : e.id = <<n, "debit">> \/ e.id = <<n, "credit">>

TwoLegs(legs) ==
  /\ Cardinality(legs) = 2
  /\ \E d \in legs : \E c \in legs :
       d.type = "debit" /\ c.type = "credit" /\ d.amount = c.amount /\ d.ref = c.ref

\* C5 as written: the entries carrying the reference id of a committed transfer are
\* exactly its two legs.
ClaimOnlyLegsCarryReference ==
  \A n \in ReqIds : TransferCommitted(n) => TwoLegs({e \in transactions : e.ref = n})

\* C5 as amended: a transfer commits exactly a debit on its source and a credit on its
\* destination, of its amount and with its id as reference id, and no entry made by
\* another transfer carries that reference id (an entry of createTransaction carries
\* it when its caller sent it as referenceId).
ThmTransferHasTwoLegs ==
  /\ [](\A n \in ReqIds : TransferCommitted(n) =>
          TwoLegs({e \in transactions : e.ref = n /\ e.id[2] # "single"}))
  /\ [][\A r \in req : (r.op = "transfer" /\ Steps(r) /\ transactions' # transactions) =>
          transactions' \ transactions =
            { [id |-> <<r.n, "debit">>, account |-> r.account, type |-> "debit",
               amount |-> r.amount, ref |-> r.n, status |-> "completed"],
              [id |-> <<r.n, "credit">>, account |-> r.to, type |-> "credit",
               amount |-> r.amount, ref |-> r.n, status |-> "completed"] }]_vars

\* a committed transfer whose reference id a later single entry carries too
WitReferenceReused ==
  \E n \in ReqIds :
    /\ TransferCommitted(n)
    /\ \E e \in transactions : e.ref = n /\ e.id[2] = "single"

\* C6: the debit leg of a transfer is committed exactly when its credit leg is, the
\* step that makes them visible changes both balances, and no balance changes in a
\* step that commits no entry.
InRow(b) == IF b = NoRow THEN 0 ELSE b
ThmLegsVisibleTogether ==
  /\ [](\A n \in ReqIds : (\E e \in transactions : e.id = <<n, "debit">>)
                            <=> (\E e \in transactions : e.id = <<n, "credit">>))
  /\ [][/\ account_balances' # account_balances => transactions' # transactions
        /\ \A r \in req :
             (r.op = "transfer" /\ \E e \in transactions' \ transactions : e.id[1] = r.n) =>
               /\ account_balances'[r.to] # NoRow
               /\ IF r.account = r.to
                    THEN account_balances'[r.to] = account_balances[r.to]
                    ELSE /\ account_balances'[r.account] = account_balances[r.account] - r.amount
                         /\ account_balances'[r.to] = InRow(account_balances[r.to]) + r.amount]_vars

\* a transfer has just committed while another handler is about to read a balance
WitCommitBesideReader ==
  \E r \in req : \E o \in req :
    r.op = "transfer" /\ r.pc = "publish" /\ r.account # r.to /\ o.pc = "verify"

\* C7: no transfer commits while its source or its destination has no balance row.
ClaimUnknownAccountRefused ==
  [][\A r \in req :
       (r.op = "transfer" /\ (account_balances[r.account] = NoRow \/ account_balances[r.to] = NoRow))
         => ~(Steps(r) /\ transactions' # transactions)]_vars

\* C8: a statement that raises inside the open transaction leaves the committed entries
\* and balances as they were, and an entry is committed only by a handler that has
\* passed COMMIT.
ThmFailureRollsBack ==
  /\ [](\A e \in transactions : \A r \in req : r.n = e.id[1] => r.pc = "publish")
  /\ [][\A r \in req :
          ( /\ r.op \in {"createTransaction", "transfer"}
            /\ r.pc \in {"insert", "insert2", "update", "update2", "commit"}
            /\ Steps(r) /\ answer' = [n |-> r.n, op |-> r.op, status |-> "500", about |-> 0, body |-> NoBody] )
          => (Ends(r) /\ UNCHANGED <<transactions, account_balances>>)]_vars

\* a transfer that failed and left nothing, beside committed entries of other requests
WitFailureRolledBack ==
  /\ answer.op = "transfer" /\ answer.status = "500"
  /\ EntriesOf(answer.n) = {}
  /\ transactions # {}
ErrorStatus ==
  {"400 validation", "403 access denied", "400 Account not found", "400 Insufficient funds",
   "400 Balance verification failed", "404", "500"}

\* C9: when a handler answers with an error, nothing of its request persists: no ledger
\* entry, no payment row, and no cancellation made by it.
ClaimErrorMeansNoEffect ==
  [][\A r \in req :
       (Ends(r) /\ answer'.n = r.n /\ answer'.status \in ErrorStatus) =>
         /\ \A e \in transactions' : e.id[1] # r.n
         /\ payments'[r.n] = NoPayment
         /\ r.op = "cancelPayment" => payments'[r.paymentId].status # "cancelled"]_vars

Creating == {"createTransaction", "transfer", "createPayment"}

\* C10: a createTransaction, transfer or createPayment request with an invalid amount
\* or from a caller who does not own the source account never gets a handler past
\* its checks, and the step that rejects it changes no table, no queue and no event.
ThmRejectedBeforeMutation ==
  /\ [](\A r \in req : r.op \in Creating =>
          r.amount > 0 /\ <<r.account, r.user>> \in account_ownership)
  /\ [][(nextReq' = nextReq + 1 /\ answer'.n = nextReq + 1 /\ answer'.op \in Creating
           /\ answer'.status \in {"400 validation", "403 access denied"}) =>
          UNCHANGED <<account_balances, transactions, payments, processing, txEvents,
                      payEvents, req>>]_vars

\* a payment request refused for ownership while the tables hold a payment
WitRejectedBeforeMutation ==
  /\ answer.op = "createPayment" /\ answer.status = "403 access denied"
  /\ \E n \in ReqIds : payments[n] # NoPayment

\* the payments with a cancel UPDATE that is not committed, on the clients given
PendingCancels(idle, handlers) ==
  UNION ({idle[i].cancelled : i \in 1..Len(idle)} \cup {r.client.cancelled : r \in handlers})

\* C11: a step that commits a debit entry is taken by a handler whose caller owns the
\* entry's account, a payment row is inserted by a handler whose caller owns its source
\* account, and a payment row is updated, at once or in a transaction left open, only
\* in a step that takes a cancel request from a caller who owns the payment's source
\* account; such an update changes the row later only when that transaction commits.
ThmSourceOwnedByCaller ==
  /\ [][\A r \in req : \A e \in transactions' \ transactions :
          (Steps(r) /\ e.id[1] = r.n /\ e.type = "debit") =>
            (e.account = r.account /\ <<e.account, r.user>> \in account_ownership)]_vars
  /\ [][\A n \in ReqIds : (payments[n] = NoPayment /\ payments'[n] # NoPayment) =>
          \E r \in req : /\ r.n = n /\ payments'[n].from_account_id = r.account
                         /\ <<r.account, r.user>> \in account_ownership]_vars
  /\ [][\A n \in ReqIds :
          ( /\ payments[n] # NoPayment
            /\ \/ payments'[n] # payments[n] /\ n \notin PendingCancels(payIdle, req)
               \/ n \in PendingCancels(payIdle', req') \ PendingCancels(payIdle, req) ) =>
          \E r \in req' \ req : /\ r.op = "cancelPayment" /\ r.paymentId = n
                                /\ <<payments[n].from_account_id, r.user>> \in account_ownership]_vars
  /\ [][\A n \in ReqIds :
          (payments[n] # NoPayment /\ payments'[n] # payments[n]
             /\ n \in PendingCancels(payIdle, req)) =>
          \E r \in req : r.pc = "commitPayment" /\ Steps(r) /\ n \in r.client.cancelled]_vars

\* a cancel request refused for a payment that was scheduled when the request came:
\* its caller does not own the source account
WitCancelByStranger ==
  /\ answer.op = "cancelPayment" /\ answer.status = "404"
  /\ answer.about \in ReqIds
  /\ payments[answer.about].status = "scheduled"
  /\ \A r \in req : r.n # answer.about

\* C12: the status a handler chooses for its payment is scheduled when scheduledAt is
\* present and later than the clock at that moment, whatever the risk score; else
\* pending_review when the risk score is above the review threshold; else processing;
\* and the row is committed with that status.
ThmInitialStatus ==
  /\ [][\A r \in req : \A r2 \in req' :
          (r.pc = "fraud" /\ Steps(r) /\ r2.n = r.n) =>
            /\ (r.scheduledAt # NoTime /\ r.scheduledAt > now) => r2.row.status = "scheduled"
            /\ (r.scheduledAt = NoTime \/ r.scheduledAt <= now) =>
                 r2.row.status = IF r2.row.risk_score > ReviewThreshold
                                   THEN "pending_review" ELSE "processing"]_vars
  /\ [][\A n \in ReqIds : (payments[n] = NoPayment /\ payments'[n] # NoPayment) =>
          \E r \in req : r.n = n /\ r.pc = "commitPayment" /\ payments'[n] = r.row]_vars

\* a scheduled payment with a risk factor, and one whose scheduledAt was not in the
\* future when its status was chosen
WitInitialStatus ==
  \E n \in ReqIds : \E m \in ReqIds :
    /\ payments[n].status = "scheduled" /\ payments[n].risk_score > 0
    /\ payments[m].status = "processing" /\ payments[m].scheduled_at # NoTime

Terminal == {"completed", "failed", "cancelled"}

\* C13: no step changes the row of a payment whose status is completed, failed or
\* cancelled.
ThmTerminalImmutable ==
  [][\A n \in ReqIds : payments[n].status \in Terminal => payments'[n] = payments[n]]_vars

\* a cancelled payment that a later cancel request of its owner did not touch
WitTerminalImmutable ==
  \E n \in ReqIds :
    /\ payments[n].status = "cancelled"
    /\ payments[n].updated_at < now
    /\ answer.op = "cancelPayment" /\ answer.status = "404" /\ answer.about = n
    /\ answer.n > n + 1

\* a request to cancel payment n arrives in this step
CancelArrives(n) ==
  /\ nextReq' = nextReq + 1
  /\ \/ answer'.n = nextReq' /\ answer'.op = "cancelPayment" /\ answer'.about = n
     \/ \E r \in req' \ req : r.n = nextReq' /\ r.op = "cancelPayment" /\ r.paymentId = n

ClaimOwnerCancelSucceeds ==
  /\ [][\A n \in ReqIds : \A r \in req' \ req :
          (CancelArrives(n) /\ r.op = "cancelPayment") => payments'[n].status = "cancelled"]_vars
  /\ [][\A r \in req : (r.op = "cancelPayment" /\ Ends(r)) => answer'.status = "200"]_vars
  /\ [](\A n \in ReqIds : payments[n].status = "cancelled" => EntriesOf(n) = {})

HandedOver(n) == {i \in 1..Len(processing) : processing[i].paymentId = n /\ processing[i].scheduled}

\* C16: while scheduledAt of a payment lies in the future its status is scheduled or
\* cancelled and no message hands it to processing; a scheduled payment leaves that
\* status only for cancelled; and a message that hands a scheduled payment to processing
\* is sent only when scheduledAt has elapsed.
ThmScheduledUntilDue ==
  /\ [](\A n \in ReqIds :
          (payments[n] # NoPayment /\ payments[n].scheduled_at # NoTime /\ now < payments[n].scheduled_at) =>
            /\ payments[n].status \in {"scheduled", "cancelled"}
            /\ \A i \in 1..Len(processing) : processing[i].paymentId # n)
  /\ [][\A n \in ReqIds :
          (payments[n].status = "scheduled" /\ payments'[n].status # "scheduled") =>
            payments'[n].status = "cancelled"]_vars
  /\ [][\A i \in 1..Len(processing') :
          (i > Len(processing) /\ processing'[i].scheduled) =>
            /\ payments[processing'[i].paymentId].status = "scheduled"
            /\ payments[processing'[i].paymentId].scheduled_at <= now]_vars

\* a scheduled payment whose time has come, handed to processing by the sweep
WitScheduledHandedOver ==
  \E n \in ReqIds :
    /\ payments[n].status = "scheduled" /\ payments[n].created_at < payments[n].scheduled_at
    /\ HandedOver(n) # {}

\* C17: with the channel open, a scheduled payment whose time has come eventually
\* leaves status scheduled (for processing and then completed or failed, or cancelled).
ClaimScheduledEventuallyRuns ==
  \A n \in ReqIds :
    (payments[n].status = "scheduled" /\ payments[n].scheduled_at <= now /\ payChannel = "open")
      ~> (payments[n].status \in {"processing", "completed", "failed", "cancelled"}
            \/ payChannel # "open")

\* C18: no payment is handed to processing by the sweep more than once.
ClaimHandedOverOnce ==
  \A n \in ReqIds : Cardinality(HandedOver(n)) <= 1

\* C19: with the channel open, a payment in status processing eventually reaches
\* completed or failed.
ClaimProcessingEventuallyEnds ==
  \A n \in ReqIds :
    (payments[n].status = "processing" /\ payChannel = "open")
      ~> (payments[n].status \in {"completed", "failed"} \/ payChannel # "open")

\* the ledger entries a payment caused: those of its request or carrying its id
CausedBy(n) == {e \in transactions : e.id[1] = n \/ e.ref = n}

\* C20: a payment has committed ledger entries exactly when its status is completed.
InvStatusMatchesLedger ==
  \A n \in ReqIds :
    payments[n] # NoPayment => (CausedBy(n) # {} <=> payments[n].status = "completed")

\* a payment in processing without entries, beside committed entries of a ledger request
WitPaymentBesideLedger ==
  \E n \in ReqIds :
    /\ payments[n].status = "processing" /\ CausedBy(n) = {}
    /\ transactions # {}

\* C21: the risk score of a proposed payment is 25 for an amount above 10000 plus 25
\* for more than 5 payments of the source account in the last hour; it lies between 0
\* and 100; and requiresReview holds exactly when the score is above 50.
ThmRiskScore ==
  \A r \in req : r.pc = "checked" =>
    LET large == IF r.amount > 10000 THEN 1 ELSE 0
        frequent == IF r.recent > 5 THEN 1 ELSE 0
    IN /\ r.fraudCheck.riskScore = 25 * (large + frequent)
       /\ r.fraudCheck.riskScore \in 0..100
       /\ r.fraudCheck.requiresReview <=> (r.fraudCheck.riskScore > 50)

\* a check in which both heuristics fired, and one at the threshold amount
WitRiskScore ==
  \E r \in req :
    /\ r.pc = "checked"
    /\ r.fraudCheck.riskFactors = {"large_amount", "high_frequency"}
    /\ r.recent = 6

\* the handler of request n has ended
Answered(n) == \A r \in req : r.n # n
\* the events of a type published for a request or a payment
EventsFor(events, type, n) == {e \in events : e.type = type /\ e.n = n}
EventsAbout(type, paymentId) == {e \in payEvents : e.type = type /\ e.paymentId = paymentId}
\* a cancel handler for the payment is still running
Cancelling(paymentId) == \E r \in req : r.op = "cancelPayment" /\ r.paymentId = paymentId

\* C22: once the handler of a committed mutation has ended there is exactly one event
\* of the matching type for it: transaction.created for a single entry,
\* transfer.completed for a transfer, payment.created for a payment, payment.cancelled
\* for a cancellation.
ClaimOneEventPerMutation ==
  /\ \A e \in transactions : Answered(e.id[1]) =>
       Cardinality(EventsFor(txEvents, IF e.id[2] = "single" THEN "transaction.created"
                                       ELSE "transfer.completed", e.id[1])) = 1
  /\ \A n \in ReqIds : (payments[n] # NoPayment /\ Answered(n)) =>
       Cardinality(EventsAbout("payment.created", n)) = 1
  /\ \A n \in ReqIds : (payments[n].status = "cancelled" /\ ~Cancelling(n)) =>
       Cardinality(EventsAbout("payment.cancelled", n)) = 1

\* C23: the payment.created event of a committed payment is not lost to an outage of
\* the channel: once the channel is open the event is eventually published.
ClaimOutageLosesNothing ==
  \A n \in ReqIds :
    (payments[n] # NoPayment)
      ~> (EventsAbout("payment.created", n) # {} \/ payChannel # "open")

\* C25: the events of one payment are published in the order of their creation: a
\* payment.cancelled event is never published before the payment.created event of the
\* same payment.
ClaimAggregateOrder ==
  \A e \in payEvents : e.type = "payment.cancelled" =>
    EventsAbout("payment.created", e.paymentId) # {}

\* what identifies a message across deliveries
MsgId(m) == <<m.type, m.n>>
PendingIds == {MsgId(m) : m \in Range(notifyQueue) \cup Unacked}

\* C24: a message of the queue stays pending (ready, or delivered and not yet
\* acknowledged) until the handler it was delivered to acknowledges it on the open
\* channel; a negative acknowledgement puts the same message back at the head of the
\* queue; and an event published while the queue is bound is put on the queue.
ThmPendingUntilAcked ==
  /\ [][\A id \in PendingIds \ PendingIds' :
          \E h \in consuming \ consuming' :
            /\ MsgId(h.msg) = id /\ h.tag = "valid" /\ notifyChannel = "open"
            /\ h.msg.type # "malformed"
            /\ h.pc = "ack" \/ h.msg.type \notin Templates]_vars
  /\ [][\A h \in consuming \ consuming' :
          (h.msg.type = "malformed" /\ h.tag = "valid" /\ notifyChannel = "open"
             /\ notifyChannel' = "open") =>
            (notifyQueue' # <<>> /\ MsgId(Head(notifyQueue')) = MsgId(h.msg))]_vars
  /\ [][\A e \in txEvents' \ txEvents :
          Bound => (notifyQueue' # <<>> /\ MsgId(notifyQueue'[Len(notifyQueue')]) = <<e.type, e.n>>)]_vars

\* a message delivered again after a negative acknowledgement, beside an event waiting
WitRedelivered ==
  /\ \E h \in consuming : h.msg.type = "malformed" /\ h.msg.redelivered /\ h.tag = "valid"
  /\ \E m \in Range(notifyQueue) : m.type = "transaction.created"

\* C26: however often an event is delivered, the user's list of notifications holds
\* it once.
ClaimConsumedOnce ==
  \A u \in Users : \A i \in 1..Len(inbox[u]) : \A j \in 1..Len(inbox[u]) :
    i # j => inbox[u][i] # inbox[u][j]

\* C27: a committed ledger entry stays in the table with all its fields, whatever
\* the transaction service or the payment service does next.
ThmLedgerAppendOnly == [][transactions \subseteq transactions']_vars

\* a committed entry, and a payment created and answered by a later request
WitLedgerKept ==
  \E e \in transactions :
    /\ answer.op = "createPayment" /\ answer.n > e.id[1]
    /\ payments[answer.n] # NoPayment

\* the handler r commits its database transaction with this step
Commits(r) == Steps(r) /\ r.pc = "commit" /\ \E o \in req' : o.n = r.n /\ o.pc = "publish"

\* C28: the commit of a single-entry transaction adds exactly one ledger entry, that
\* of the request; the named account's balance grows by the amount for a credit and
\* shrinks by it for a debit; every other balance row and every existing entry stays.
ThmSingleEntryFrame ==
  [][\A r \in req :
       (r.op = "createTransaction" /\ Commits(r)) =>
         /\ transactions \subseteq transactions'
         /\ \E e \in transactions' \ transactions :
              /\ transactions' \ transactions = {e}
              /\ e.account = r.account /\ e.type = r.type /\ e.amount = r.amount
              /\ e.id[1] = r.n
         /\ account_balances'[r.account] =
              InRow(account_balances[r.account])
                + (IF r.type = "credit" THEN r.amount ELSE 0 - r.amount)
         /\ \A a \in Accounts \ {r.account} : account_balances'[a] = account_balances[a]]_vars

\* a debit answered 201 whose entry is committed, beside another account's balance row
WitSingleDebit ==
  /\ answer.op = "createTransaction" /\ answer.status = "201"
  /\ \E e \in EntriesOf(answer.n) :
       /\ e.type = "debit"
       /\ \E a \in Accounts \ {e.account} : account_balances[a] # NoRow

\* C29: every payment in the answer of getPayment or listPayments has a source
\* account owned by the caller, whatever payment id or status filter was sent, and
\* getPayment answers a payment only under the id that was asked for.
ThmQueriesOwnedByCaller ==
  answer.op \in {"getPayment", "listPayments"} =>
    /\ \A row \in answer.body.rows :
         /\ <<row.fromAccountId, answer.body.user>> \in account_ownership
         /\ answer.op = "getPayment" => row.id = answer.about
    /\ (answer.op = "getPayment" /\ answer.status # "200") => answer.body.rows = {}

\* a list answered with a payment of the caller while a payment of an account the
\* caller does not own is in the table
WitListBesideForeign ==
  /\ answer.op = "listPayments" /\ answer.body.rows # {}
  /\ \E n \in ReqIds :
       /\ payments[n] # NoPayment
       /\ <<payments[n].from_account_id, answer.body.user>> \notin account_ownership

\* the handler r of a create request answers 201 with this step
Created(r) == r.op = "createAccount" /\ Steps(r) /\ answer'.n = r.n /\ answer'.status = "201"

\* the answer of a balance query or a get-account query that found the account
Reported == answer.op \in {"getBalance", "getAccount"} /\ answer.status = "200"

\* C30 as stated: the create answer reports the initial deposit d as the balance.
ClaimBalanceIsDeposit ==
  [][\A r \in req : Created(r) => answer'.body.balance = r.amount]_vars

\* C30: the create answer reports the initial deposit d rounded to two decimals (ties
\* upwards), which is d itself when d has at most two decimals, and currency USD; the
\* account's row holds that balance and never changes; and a later balance query or
\* get-account query by the owner reports the balance of the row and currency USD.
ThmBalanceIsRoundedDeposit ==
  /\ [][\A r \in req : Created(r) =>
          /\ answer'.body.balance % 10 = 0
          /\ r.amount - 5 < answer'.body.balance /\ answer'.body.balance <= r.amount + 5
          /\ r.amount % 10 = 0 => answer'.body.balance = r.amount
          /\ answer'.body.currency = "USD"
          /\ accounts[r.n] # NoAccountRow
          /\ accounts[r.n].balance[1] * 1000 + accounts[r.n].balance[2] * 10 = answer'.body.balance
          /\ accounts[r.n].user_id = r.user]_vars
  /\ [][\A n \in ReqIds : accounts[n] # NoAccountRow => accounts'[n] = accounts[n]]_vars
  /\ [](Reported =>
          /\ accounts[answer.about] # NoAccountRow
          /\ accounts[answer.about].user_id = answer.body.user
          /\ answer.body.balance =
               accounts[answer.about].balance[1] * 1000 + accounts[answer.about].balance[2] * 10
          /\ answer.body.currency = "USD")

\* a deposit of 0.005 reported as 0.01 by the get-account query that follows it
WitRoundedDepositReported ==
  /\ answer.op = "getAccount" /\ answer.status = "200" /\ answer.body.balance = 10
  /\ accountCache[answer.about] # NoAccountRow
  /\ \A r \in req : r.n # answer.n
  /\ answer.n = answer.about + 1

\* C31: every transaction.created and transfer.completed event belongs to a request
\* whose entries are committed, every payment.created event to a committed payment
\* row, every payment.cancelled event to a row the cancel UPDATE has set to cancelled;
\* and a request answered with an error (rolled back, or no row matched) has no event.
ClaimEventsOnlyForCommitted ==
  /\ \A e \in txEvents : EntriesOf(e.n) # {}
  /\ \A e \in payEvents :
       /\ e.type = "payment.created" => payments[e.n] # NoPayment
       /\ e.type = "payment.cancelled" =>
            (payments[e.paymentId] # NoPayment /\ payments[e.paymentId].status = "cancelled")
  /\ \A e \in txEvents \cup payEvents :
       e.n = answer.n => answer.status \in {"200", "201"}

\* C32: no payment is cancelled while a message for it is on the payment.processing
\* queue.
ClaimNoCancelAfterHandOver ==
  \A n \in ReqIds :
    (payments[n] # NoPayment /\ payments[n].status = "cancelled") =>
      \A i \in 1..Len(processing) : processing[i].paymentId # n

\* C33: the risk score detectFraud returns is 0, 25 or 50, requiresReview is false,
\* and the status chosen from it is never pending_review.
ThmNeverUnderReview ==
  \A r \in req :
    /\ r.pc \in {"checked", "chosen"} =>
         (r.fraudCheck.riskScore \in {0, 25, 50} /\ ~r.fraudCheck.requiresReview)
    /\ r.pc = "chosen" => r.row.status \in {"scheduled", "processing"}

\* both heuristics fired for a payment that is not scheduled, and it goes to processing
WitBothFactorsNoReview ==
  \E r \in req :
    /\ r.pc = "chosen" /\ r.scheduledAt = NoTime
    /\ r.fraudCheck.riskFactors = {"large_amount", "high_frequency"}
    /\ r.row.status = "processing"

\* C34: once the handler that created it has ended, a payment in status processing
\* has a message on the payment.processing queue.
ClaimProcessingIsEnqueued ==
  \A n \in ReqIds :
    (payments[n] # NoPayment /\ payments[n].status = "processing" /\ Answered(n)) =>
      \E i \in 1..Len(processing) : processing[i].paymentId = n

\* C35: of two cancel requests for one scheduled payment that run together, the one
\* whose UPDATE matched ends with the success answer and exactly one payment.cancelled
\* event for the payment published; the one that arrives while it runs is answered
\* with the error, changes no payment and publishes nothing.
ClaimOneOfTwoCancels ==
  /\ [][\A r \in req :
          (r.op = "cancelPayment" /\ Ends(r)) =>
            /\ answer'.status = "200"
            /\ Cardinality({e \in payEvents' : e.type = "payment.cancelled"
                                               /\ e.paymentId = r.paymentId}) = 1]_vars
  /\ [][\A n \in ReqIds :
          (CancelArrives(n) /\ Cancelling(n)) =>
            /\ answer'.status = "404" /\ answer'.n = nextReq'
            /\ UNCHANGED <<payments, payEvents, req>>]_vars

\* C36: a get-account or get-balance request for an account of another user is
\* answered with 404 (500 when the query raises) and carries no balance and no
\* currency, whether or not the account is in the cache; an answer that carries an
\* account goes to its owner.
ThmAccountOnlyToOwner ==
  answer.op \in {"getAccount", "getBalance"} =>
    /\ ( /\ accounts[answer.about] # NoAccountRow
         /\ accounts[answer.about].user_id # answer.body.user ) =>
           /\ answer.status \in {"404", "500"}
           /\ answer.body.balance = NoBalance /\ answer.body.currency = "none"
    /\ answer.status = "200" =>
         (accounts[answer.about] # NoAccountRow
            /\ accounts[answer.about].user_id = answer.body.user)

\* get-account by another user answered 404 while the owner's copy is in the cache
WitCachedAccountRefused ==
  /\ answer.op = "getAccount" /\ answer.status = "404"
  /\ accountCache[answer.about] # NoAccountRow
  /\ accountCache[answer.about].user_id # answer.body.user

\* C37: no client is in the pool with a transaction open: every handler that issued
\* BEGIN on its client has issued COMMIT or ROLLBACK before the release.
ClaimReleasedWithoutTransaction ==
  \A i \in 1..Len(payIdle) : ~payIdle[i].tx
====
